---- MODULE Spec2Model ----
(***************************************************************************)
(* A model of owners.py: the Database of OWNERS files.                     *)
(*                                                                         *)
(* Strings are sequences of one-character strings, so that strip(),        *)
(* startswith() and the e-mail regular expression are computed on the      *)
(* characters.  A path is a sequence of components; an absolute path       *)
(* starts with the component Sep.  "" is the empty sequence.               *)
(***************************************************************************)
EXTENDS Integers, Sequences, FiniteSets, TLC

VARIABLES
  fs,            \* the repository: directory -> its OWNERS file (fixed in a session)
  owned_by,      \* self.owned_by:     owner -> set of directories
  owners_for,    \* self.owners_for:   directory -> set of owners
  stop_looking,  \* self.stop_looking: set of directories
  pc,            \* "idle": between calls; "done": a call has ended
  last           \* the call that has just ended: input, outcome, I/O trace

vars == <<fs, owned_by, owners_for, stop_looking, pc, last>>

----------------------------------------------------------------------------
(* Bounds of the model. *)

\* Largest number of paths in the `files` argument of one call.
MaxFiles == 1

\* Largest number of identifiers in the `reviewers` argument of one call.
MaxReviewers == 1

----------------------------------------------------------------------------
(* Characters and strings. *)

Min(S) == CHOOSE x \in S : \A y \in S : x <= y
Max(S) == CHOOSE x \in S : \A y \in S : x >= y

\* str.strip(): characters removed from both ends of a line.
Whitespace == {" ", "\t", "\n"}

\* The part of the class [\w\-\+\%\.] that the model's strings draw on.
OwnerChars ==
  {"a", "b", "c", "e", "n", "o", "p", "r", "s", "t", "x", "_", "0",
   "-", "+", "%", "."}

EVERYONE == <<"*">>

\* line.strip()
Strip(s) ==
  LET keep == {i \in 1..Len(s) : s[i] \notin Whitespace}
  IN  IF keep = {} THEN <<>> ELSE SubSeq(s, Min(keep), Max(keep))

\* str.startswith(prefix)
StartsWith(s, prefix) ==
  /\ Len(prefix) <= Len(s)
  /\ SubSeq(s, 1, Len(prefix)) = prefix

\* self.email_regexp.match(s) for BASIC_EMAIL_REGEXP: one or more characters
\* of the class, an "@", one or more characters of the class, end of string.
EmailMatch(s) ==
  \E i \in 1..Len(s) :
    /\ s[i] = "@"
    /\ 1 < i
    /\ i < Len(s)
    /\ \A j \in (1..Len(s)) \ {i} : s[j] \in OwnerChars

----------------------------------------------------------------------------
(* The strings of the model. *)

Alice      == <<"a", "@", "x">>
Bob        == <<"b", "@", "x">>
BobPadded  == <<" ", "b", "@", "x", " ", "\n">>
SetNoParent == <<"s", "e", "t", " ", "n", "o", "p", "a", "r", "e", "n", "t">>
Comment    == <<"#", " ", "c">>
Blank      == <<" ", "\n">>
NotAnEmail == <<"n", "o", "t", "-", "e">>

\* Path components.
Sep    == <<"/">>
DotDot == <<".", ".">>
Dot    == <<".">>
OWNERS == <<"O", "W", "N", "E", "R", "S">>
NameR  == <<"r">>
NameRX == <<"r", "X">>
NameA  == <<"a">>
NameB  == <<"b">>
NameE  == <<"e">>
NameF  == <<"f">>
NameG  == <<"g">>

----------------------------------------------------------------------------
(* os_path: dirname, join, abspath, exists; and fopen. *)

IsAbs(p) == Len(p) > 0 /\ p[1] = Sep

\* os_path.dirname(p): "a/b" -> "a", "a" -> "", "" -> "", "/a" -> "/", "/" -> "/"
dirname(p) ==
  IF p = <<>> \/ p = <<Sep>> THEN p ELSE SubSeq(p, 1, Len(p) - 1)

\* os_path.join(p, q): an absolute q replaces p
join(p, q) == IF IsAbs(q) THEN q ELSE p \o q

\* os.path.normpath on the components of an absolute path: "." is dropped and
\* ".." removes the component before it (and is dropped at "/").
RECURSIVE NormParts(_, _)
NormParts(parts, acc) ==
  IF parts = <<>> THEN acc
  ELSE LET c == Head(parts)
       IN  IF c = Dot THEN NormParts(Tail(parts), acc)
           ELSE IF c = DotDot
             THEN NormParts(Tail(parts),
                            IF acc = <<>> THEN acc ELSE SubSeq(acc, 1, Len(acc) - 1))
           ELSE NormParts(Tail(parts), Append(acc, c))

\* The working directory of the process (used for relative arguments only).
Cwd == <<Sep>>

\* os_path.abspath(p)
abspath(p) ==
  LET q == join(Cwd, p) IN <<Sep>> \o NormParts(Tail(q), <<>>)

\* The characters of an absolute path: "/" and the components joined by "/".
RECURSIVE RenderParts(_)
RenderParts(parts) ==
  IF parts = <<>> THEN <<>>
  ELSE <<"/">> \o Head(parts) \o RenderParts(Tail(parts))

Render(p) == IF Len(p) = 1 THEN <<"/">> ELSE RenderParts(Tail(p))

\* self.root
Root == <<Sep, NameR>>

\* The directories of the repository, relative to the root.
Dirs == {<<>>, <<NameA>>, <<NameA, NameB>>}

\* An OWNERS file: whether it exists, and its lines.
NoFile == [exists |-> FALSE, lines |-> <<>>]
File(lines) == [exists |-> TRUE, lines |-> lines]

\* The policy file that `owners_path` names, NoFile when the path names none.
FileAt(owners_path) ==
  LET n == abspath(owners_path)
      d == dirname(n)
  IN  IF /\ n # <<Sep>>
         /\ n[Len(n)] = OWNERS
         /\ StartsWith(d, Root)
         /\ SubSeq(d, Len(Root) + 1, Len(d)) \in Dirs
      THEN fs[SubSeq(d, Len(Root) + 1, Len(d))]
      ELSE NoFile

\* self.os_path.exists(owners_path)
exists(owners_path) == FileAt(owners_path).exists

\* self.fopen(owners_path): the lines of the file
fopen(owners_path) == FileAt(owners_path).lines

----------------------------------------------------------------------------
(* The database. *)

DB == [owned_by |-> owned_by, owners_for |-> owners_for,
       stop_looking |-> stop_looking]

NoError == [path |-> <<>>, line |-> 0, msg |-> <<>>]

\* SyntaxErrorInOwnersFile(path, line, msg)
SyntaxErrorInOwnersFile(path, line, msg) ==
  [path |-> path, line |-> line, msg |-> msg]

\* d.setdefault(k, set()).add(v)
SetDefaultAdd(d, k, v) ==
  IF k \in DOMAIN d THEN [d EXCEPT ![k] = @ \cup {v}] ELSE d @@ (k :> {v})

\* d.get(k, set())
Get(d, k) == IF k \in DOMAIN d THEN d[k] ELSE {}

\* Database._StopLooking
_StopLooking(db, d) == d \in db.stop_looking

\* ReadLines with a slip: an owner line is recorded in owned_by only.
RECURSIVE ReadLines_OwnedByOnly(_, _, _, _, _)
ReadLines_OwnedByOnly(db, dirpath, owners_path, lines, lineno) ==
  IF lines = <<>> THEN [db |-> db, err |-> NoError]
  ELSE
    LET n    == lineno + 1
        line == Strip(Head(lines))
        rest == Tail(lines)
    IN  IF StartsWith(line, <<"#">>)
          THEN ReadLines_OwnedByOnly(db, dirpath, owners_path, rest, n)
        ELSE IF line = SetNoParent
          THEN ReadLines_OwnedByOnly(
                 [db EXCEPT !.stop_looking = @ \cup {dirpath}],
                 dirpath, owners_path, rest, n)
        ELSE IF EmailMatch(line) \/ line = EVERYONE
          THEN ReadLines_OwnedByOnly(
                 [db EXCEPT !.owned_by = SetDefaultAdd(@, line, dirpath)],
                 dirpath, owners_path, rest, n)
        ELSE [db |-> db,
              err |-> SyntaxErrorInOwnersFile(owners_path, n, line)]

\* ReadLines with a slip: an owner line replaces the directories recorded for
\* the owner instead of adding to them.
RECURSIVE ReadLines_OwnedByReplaced(_, _, _, _, _)
ReadLines_OwnedByReplaced(db, dirpath, owners_path, lines, lineno) ==
  IF lines = <<>> THEN [db |-> db, err |-> NoError]
  ELSE
    LET n    == lineno + 1
        line == Strip(Head(lines))
        rest == Tail(lines)
    IN  IF StartsWith(line, <<"#">>)
          THEN ReadLines_OwnedByReplaced(db, dirpath, owners_path, rest, n)
        ELSE IF line = SetNoParent
          THEN ReadLines_OwnedByReplaced(
                 [db EXCEPT !.stop_looking = @ \cup {dirpath}],
                 dirpath, owners_path, rest, n)
        ELSE IF EmailMatch(line) \/ line = EVERYONE
          THEN ReadLines_OwnedByReplaced(
                 [db EXCEPT !.owned_by = (line :> {dirpath}) @@ @,
                            !.owners_for = SetDefaultAdd(@, dirpath, line)],
                 dirpath, owners_path, rest, n)
        ELSE [db |-> db,
              err |-> SyntaxErrorInOwnersFile(owners_path, n, line)]

\* The loop of _ReadOwnersInDir over the lines of the file; `lineno` lines
\* have been read.  Returns the database and the error raised, if any.
RECURSIVE ReadLines(_, _, _, _, _)
ReadLines(db, dirpath, owners_path, lines, lineno) ==
  IF lines = <<>> THEN [db |-> db, err |-> NoError]
  ELSE
    LET n    == lineno + 1
        line == Strip(Head(lines))
        rest == Tail(lines)
    IN  IF StartsWith(line, <<"#">>)
          THEN ReadLines(db, dirpath, owners_path, rest, n)
        ELSE IF line = SetNoParent
          THEN ReadLines([db EXCEPT !.stop_looking = @ \cup {dirpath}],
                         dirpath, owners_path, rest, n)
        ELSE IF EmailMatch(line) \/ line = EVERYONE
          THEN ReadLines(
                 [db EXCEPT !.owned_by = SetDefaultAdd(@, line, dirpath),
                            !.owners_for = SetDefaultAdd(@, dirpath, line)],
                 dirpath, owners_path, rest, n)
        ELSE [db |-> db,
              err |-> SyntaxErrorInOwnersFile(owners_path, n, line)]

\* _ReadOwnersInDir with a slip: a file that raises leaves nothing recorded.
_ReadOwnersInDir_AllOrNothing(db, dirpath) ==
  LET owners_path == join(join(Root, dirpath), <<OWNERS>>)
      r == ReadLines(db, dirpath, owners_path, fopen(owners_path), 0)
  IN  IF ~exists(owners_path) THEN [db |-> db, err |-> NoError]
      ELSE IF r.err # NoError THEN [db |-> db, err |-> r.err]
      ELSE r

\* Database._ReadOwnersInDir
_ReadOwnersInDir(db, dirpath) ==
  LET owners_path == join(join(Root, dirpath), <<OWNERS>>)
  IN  IF ~exists(owners_path) THEN [db |-> db, err |-> NoError]
      ELSE ReadLines(db, dirpath, owners_path, fopen(owners_path), 0)

\* The inner loop of _LoadDataNeededFor, from `dirpath` upward.  st.io lists
\* the directories whose OWNERS file was looked for; st.hang tells that the
\* loop has reached a directory it can never leave.
RECURSIVE LoadWalk(_, _)
LoadWalk(st, dirpath) ==
  IF dirpath \in DOMAIN st.db.owners_for THEN st
  ELSE
    LET r   == _ReadOwnersInDir(st.db, dirpath)
        st1 == [st EXCEPT !.db = r.db, !.err = r.err,
                          !.io = Append(@, dirpath)]
        up  == dirname(dirpath)
    IN  IF r.err # NoError THEN st1
        ELSE IF _StopLooking(r.db, dirpath) THEN st1
        ELSE IF up = dirpath /\ dirpath \notin DOMAIN r.db.owners_for
          THEN [st1 EXCEPT !.hang = TRUE]
        ELSE LoadWalk(st1, up)

\* Database._LoadDataNeededFor, the files taken in the order `order`.
RECURSIVE LoadFiles(_, _)
LoadFiles(st, order) ==
  IF order = <<>> \/ st.err # NoError \/ st.hang THEN st
  ELSE LoadFiles(LoadWalk(st, dirname(Head(order))), Tail(order))

_LoadDataNeededFor(db, order) ==
  LoadFiles([db |-> db, err |-> NoError, io |-> <<>>, hang |-> FALSE], order)

\* The inner loop of _CoveringSetOfOwnersFor, from `d` upward.
RECURSIVE OwnersWalk(_, _)
OwnersWalk(db, d) ==
  IF d \notin DOMAIN db.owners_for THEN {}
  ELSE db.owners_for[d] \cup
       (IF _StopLooking(db, d) \/ dirname(d) = d THEN {}
        ELSE OwnersWalk(db, dirname(d)))

\* Database._CoveringSetOfOwnersFor
_CoveringSetOfOwnersFor(db, files) ==
  UNION {OwnersWalk(db, dirname(f)) : f \in files}

\* Database._DirsCoveredBy
_DirsCoveredBy(db, reviewers) ==
  db.owned_by[EVERYONE] \cup UNION {Get(db.owned_by, r) : r \in reviewers}

\* Database._IsDirCoveredBy
RECURSIVE _IsDirCoveredBy(_, _, _)
_IsDirCoveredBy(db, d, covered_dirs) ==
  IF d \notin covered_dirs /\ ~_StopLooking(db, d) /\ dirname(d) # d
    THEN _IsDirCoveredBy(db, dirname(d), covered_dirs)
  ELSE d \in covered_dirs

\* The loop of _IsDirCoveredBy, from `d` upward, never ends: it reaches a
\* directory that is its own dirname and is neither covered nor a stop.
RECURSIVE CoverWalkHangs(_, _, _)
CoverWalkHangs(db, d, covered_dirs) ==
  IF d \in covered_dirs \/ _StopLooking(db, d) THEN FALSE
  ELSE IF dirname(d) = d THEN TRUE
  ELSE CoverWalkHangs(db, dirname(d), covered_dirs)

\* Database._FilesByDir
_FilesByDir(files) ==
  [d \in {dirname(f) : f \in files} |-> {f \in files : dirname(f) = d}]

\* _isunder(f, pfx) of Database._CheckPaths
_isunder(f, pfx) == StartsWith(Render(abspath(join(pfx, f))), Render(pfx))

\* Database._CheckPaths: TRUE when the assertion passes
_CheckPaths(files) == \A f \in files : _isunder(f, abspath(Root))

\* _CheckReviewers with a slip: the wildcard is let through.
_CheckReviewers_AllowEveryone(reviewers) ==
  \A r \in reviewers : EmailMatch(r) \/ r = EVERYONE

\* Database._CheckReviewers: TRUE when the assertion passes
_CheckReviewers(reviewers) == \A r \in reviewers : EmailMatch(r)

----------------------------------------------------------------------------
(* The calls. *)

Ended(op, files, reviewers, outcome, value, err, io) ==
  [op |-> op, files |-> files, reviewers |-> reviewers, outcome |-> outcome,
   value |-> value, err |-> err, io |-> io]

NoCall == Ended("none", {}, {}, "none", {}, NoError, <<>>)

\* What a call does: the database it leaves and the record of how it ended.
Fails(db, op, files, reviewers, outcome) ==
  [db |-> db, last |-> Ended(op, files, reviewers, outcome, {}, NoError, <<>>)]

AfterLoad(ld, op, files, reviewers, value) ==
  [db |-> ld.db,
   last |-> IF ld.err # NoError
              THEN Ended(op, files, reviewers, "SyntaxError", {}, ld.err, ld.io)
            ELSE IF ld.hang
              THEN Ended(op, files, reviewers, "hang", {}, NoError, ld.io)
            ELSE Ended(op, files, reviewers, "returned", value, NoError, ld.io)]

\* The end of FilesNotCoveredBy after its load step `ld`: the loop over the
\* directories of the files, which reports `uncovered` unless the load step
\* or a walk of _IsDirCoveredBy has not ended.
AfterCover(ld, op, files, reviewers, covered_dirs, uncovered) ==
  IF /\ ld.err = NoError
     /\ ~ld.hang
     /\ \E f \in files : CoverWalkHangs(ld.db, dirname(f), covered_dirs)
    THEN [db |-> ld.db,
          last |-> Ended(op, files, reviewers, "hang", {}, NoError, ld.io)]
  ELSE AfterLoad(ld, op, files, reviewers, uncovered)

\* Database.ReviewersFor
DoReviewersFor(db, files, order) ==
  IF ~_CheckPaths(files) THEN Fails(db, "ReviewersFor", files, {}, "InvalidPath")
  ELSE LET ld == _LoadDataNeededFor(db, order)
       IN  AfterLoad(ld, "ReviewersFor", files, {},
                     _CoveringSetOfOwnersFor(ld.db, files))

\* FilesNotCoveredBy with a slip: the data is loaded before the reviewers are
\* checked.
NotCoveredBy_LoadFirst(db, op, files, reviewers, order) ==
  IF ~_CheckPaths(files) THEN Fails(db, op, files, reviewers, "InvalidPath")
  ELSE
    LET ld           == _LoadDataNeededFor(db, order)
        files_by_dir == _FilesByDir(files)
        covered_dirs == _DirsCoveredBy(ld.db, reviewers)
        uncovered    == UNION {files_by_dir[d] : d \in
                          {e \in DOMAIN files_by_dir :
                             ~_IsDirCoveredBy(ld.db, e, covered_dirs)}}
    IN  IF ld.err # NoError \/ ld.hang
          THEN AfterLoad(ld, op, files, reviewers, {})
        ELSE IF ~_CheckReviewers(reviewers)
          THEN [db |-> ld.db,
                last |-> Ended(op, files, reviewers, "InvalidReviewer", {},
                               NoError, ld.io)]
        ELSE IF reviewers = {}
          THEN [db |-> ld.db,
                last |-> Ended(op, files, reviewers, "returned", files,
                               NoError, ld.io)]
        ELSE AfterCover(ld, op, files, reviewers, covered_dirs, uncovered)

\* FilesNotCoveredBy with a slip: no early return for an empty reviewer set.
NotCoveredBy_NoEarlyReturn(db, op, files, reviewers, order) ==
  IF ~_CheckPaths(files) THEN Fails(db, op, files, reviewers, "InvalidPath")
  ELSE IF ~_CheckReviewers(reviewers)
    THEN Fails(db, op, files, reviewers, "InvalidReviewer")
  ELSE
    LET ld           == _LoadDataNeededFor(db, order)
        files_by_dir == _FilesByDir(files)
        covered_dirs == _DirsCoveredBy(ld.db, reviewers)
        uncovered    == UNION {files_by_dir[d] : d \in
                          {e \in DOMAIN files_by_dir :
                             ~_IsDirCoveredBy(ld.db, e, covered_dirs)}}
    IN  AfterCover(ld, op, files, reviewers, covered_dirs, uncovered)

\* Database.FilesNotCoveredBy, called as `op`
NotCoveredBy(db, op, files, reviewers, order) ==
  IF ~_CheckPaths(files) THEN Fails(db, op, files, reviewers, "InvalidPath")
  ELSE IF ~_CheckReviewers(reviewers)
    THEN Fails(db, op, files, reviewers, "InvalidReviewer")
  ELSE IF reviewers = {}
    THEN [db |-> db,
          last |-> Ended(op, files, reviewers, "returned", files, NoError, <<>>)]
  ELSE
    LET ld           == _LoadDataNeededFor(db, order)
        files_by_dir == _FilesByDir(files)
        covered_dirs == _DirsCoveredBy(ld.db, reviewers)
        uncovered    == UNION {files_by_dir[d] : d \in
                          {e \in DOMAIN files_by_dir :
                             ~_IsDirCoveredBy(ld.db, e, covered_dirs)}}
    IN  AfterCover(ld, op, files, reviewers, covered_dirs, uncovered)

DoFilesNotCoveredBy(db, files, reviewers, order) ==
  NotCoveredBy(db, "FilesNotCoveredBy", files, reviewers, order)

\* Database.FilesAreCoveredBy: `not self.FilesNotCoveredBy(files, reviewers)`
DoFilesAreCoveredBy(db, files, reviewers, order) ==
  LET r == NotCoveredBy(db, "FilesAreCoveredBy", files, reviewers, order)
  IN  IF r.last.outcome = "returned"
        THEN [r EXCEPT !.last.value = (r.last.value = {})]
      ELSE r

----------------------------------------------------------------------------
(* The inputs. *)

\* Paths a caller passes as files.
PathAB   == <<NameA, NameB, NameF>>      \* a/b/f
PathA    == <<NameA, NameG>>             \* a/g
PathTop  == <<NameF>>                    \* f
PathOut  == <<DotDot, NameE, NameF>>     \* ../e/f
PathSib  == <<DotDot, NameRX, NameF>>    \* ../rX/f

FilePaths == {PathAB, PathA, PathTop, PathOut, PathSib}

\* Identifiers a caller passes as reviewers.
Reviewers == {Alice, Bob, EVERYONE, NotAnEmail}

FileSets == {F \in SUBSET FilePaths : Cardinality(F) <= MaxFiles}
ReviewerSets == {R \in SUBSET Reviewers : Cardinality(R) <= MaxReviewers}

\* The orders in which a loop may take the elements of a set.
Orders(S) ==
  {o \in [1..Cardinality(S) -> S] : \A i, j \in DOMAIN o : i # j => o[i] # o[j]}

\* The OWNERS files a directory may have.
Policies ==
  { NoFile,
    File(<<EVERYONE>>),
    File(<<Alice>>),
    File(<<SetNoParent>>),
    File(<<SetNoParent, BobPadded>>),
    File(<<Comment, Alice, NotAnEmail, SetNoParent>>),
    File(<<Alice, Blank, BobPadded>>) }

----------------------------------------------------------------------------
(* The state machine. *)

\* Database.__init__
InitOwnedBy == (EVERYONE :> {})
InitOwnersFor == << >>
InitStopLooking == {<<>>}

Init ==
  /\ fs \in [Dirs -> Policies]
  /\ owned_by = InitOwnedBy
  /\ owners_for = InitOwnersFor
  /\ stop_looking = InitStopLooking
  /\ pc = "idle"
  /\ last = NoCall

Finish(r) ==
  /\ owned_by' = r.db.owned_by
  /\ owners_for' = r.db.owners_for
  /\ stop_looking' = r.db.stop_looking
  /\ last' = r.last
  /\ pc' = "done"
  /\ UNCHANGED fs

ReviewersFor ==
  /\ pc = "idle"
  /\ \E files \in FileSets : \E order \in Orders(files) :
       Finish(DoReviewersFor(DB, files, order))

FilesNotCoveredBy ==
  /\ pc = "idle"
  /\ \E files \in FileSets : \E reviewers \in ReviewerSets :
       \E order \in Orders(files) :
         Finish(DoFilesNotCoveredBy(DB, files, reviewers, order))

FilesAreCoveredBy ==
  /\ pc = "idle"
  /\ \E files \in FileSets : \E reviewers \in ReviewerSets :
       \E order \in Orders(files) :
         Finish(DoFilesAreCoveredBy(DB, files, reviewers, order))

\* The caller takes the outcome; the session goes on with the same database.
Return ==
  /\ pc = "done"
  /\ last.outcome # "hang"
  /\ pc' = "idle"
  /\ last' = NoCall
  /\ UNCHANGED <<fs, owned_by, owners_for, stop_looking>>

Next ==
  \/ ReviewersFor
  \/ FilesNotCoveredBy
  \/ FilesAreCoveredBy
  \/ Return

Spec == Init /\ [][Next]_vars

----------------------------------------------------------------------------
(* Sessions whose callers also pass absolute paths. *)

\* An absolute path of a file under the root: /r/a/f
PathAbs == <<Sep, NameR, NameA, NameF>>

AbsFileSets ==
  {F \in SUBSET (FilePaths \cup {PathAbs}) : Cardinality(F) <= MaxFiles}

ReviewersForAbs ==
  /\ pc = "idle"
  /\ \E files \in AbsFileSets : \E order \in Orders(files) :
       Finish(DoReviewersFor(DB, files, order))

FilesNotCoveredByAbs ==
  /\ pc = "idle"
  /\ \E files \in AbsFileSets : \E reviewers \in ReviewerSets :
       \E order \in Orders(files) :
         Finish(DoFilesNotCoveredBy(DB, files, reviewers, order))

FilesAreCoveredByAbs ==
  /\ pc = "idle"
  /\ \E files \in AbsFileSets : \E reviewers \in ReviewerSets :
       \E order \in Orders(files) :
         Finish(DoFilesAreCoveredBy(DB, files, reviewers, order))

NextAbs ==
  \/ ReviewersForAbs
  \/ FilesNotCoveredByAbs
  \/ FilesAreCoveredByAbs
  \/ Return

SpecAbs == Init /\ [][NextAbs]_vars

----------------------------------------------------------------------------
(* What the policy files of the repository declare. *)

\* The stripped lines of the policy file of directory d.
StrippedLines(d) == {Strip(fs[d].lines[i]) : i \in 1..Len(fs[d].lines)}

\* An owner identifier: the wildcard or an e-mail-shaped string.
IsOwnerId(s) == s = EVERYONE \/ EmailMatch(s)

\* The owners declared directly in d.
Declared(d) == {s \in StrippedLines(d) : IsOwnerId(s)}

\* d is a boundary directory: the root, or it declares 'set noparent'.
IsBoundary(d) == d = <<>> \/ SetNoParent \in StrippedLines(d)

\* The directories from d upward to and including its nearest boundary.
RECURSIVE Chain(_)
Chain(d) == IF IsBoundary(d) THEN {d} ELSE {d} \cup Chain(dirname(d))

\* The policy file of d follows the format: every line is blank, a comment,
\* 'set noparent' or an owner identifier.
WellFormed(d) ==
  \A s \in StrippedLines(d) :
    s = <<>> \/ StartsWith(s, <<"#">>) \/ s = SetNoParent \/ IsOwnerId(s)

\* The path f names a file inside the repository root.
InsideRoot(f) ==
  LET n == abspath(join(Root, f))
  IN  /\ Len(n) > Len(Root)
      /\ SubSeq(n, 1, Len(Root)) = Root
      /\ SubSeq(dirname(n), Len(Root) + 1, Len(n) - 1) \in Dirs

\* Some directory on the chain of d declares the wildcard or one of `who`.
ChainDeclares(d, who) ==
  \E e \in Chain(d) : Declared(e) \cap ({EVERYONE} \cup who) # {}

CoverageOps == {"FilesNotCoveredBy", "FilesAreCoveredBy"}

\* A step that is a call of the database.
IsCall == pc = "idle" /\ pc' = "done"

Returned(op) == pc = "done" /\ last.op = op /\ last.outcome = "returned"

----------------------------------------------------------------------------
(* The claims. *)

\* C1: ReviewersFor(files), for files under the root, returns exactly the
\* union over the files of the owners declared in the directories from the
\* file's directory up to and including its nearest boundary; a directory
\* with no policy file contributes nothing and does not end the walk.
C1_ReviewersAreChainOwners ==
  (/\ Returned("ReviewersFor")
   /\ \A f \in last.files : InsideRoot(f))
  => last.value =
       UNION {Declared(d) : d \in UNION {Chain(dirname(f)) : f \in last.files}}

\* C2: in a session whose policy files are all well-formed,
\* FilesNotCoveredBy(files, reviewers), for files under the root and a
\* non-empty set of valid reviewers, returns exactly the files no directory
\* of whose chain declares '*' or one of the reviewers.
C2_NotCoveredAreChainUndeclared ==
  (/\ Returned("FilesNotCoveredBy")
   /\ last.reviewers # {}
   /\ \A f \in last.files : InsideRoot(f)
   /\ \A d \in Dirs : WellFormed(d))
  => last.value =
       {f \in last.files : ~ChainDeclares(dirname(f), last.reviewers)}

\* C3: when a directory on the chain of a file's directory declares '*',
\* FilesNotCoveredBy with any non-empty set of valid reviewers does not
\* report the file, and FilesAreCoveredBy is true when this holds of every
\* file.
C3_WildcardCovers ==
  /\ (/\ Returned("FilesNotCoveredBy")
      /\ last.reviewers # {})
     => \A f \in last.files :
          (InsideRoot(f) /\ ChainDeclares(dirname(f), {})) => f \notin last.value
  /\ (/\ Returned("FilesAreCoveredBy")
      /\ last.reviewers # {}
      /\ \A f \in last.files : InsideRoot(f) /\ ChainDeclares(dirname(f), {}))
     => last.value = TRUE

\* C4: ReviewersFor never includes an owner that no directory on the chain
\* of one of the files declares: an owner declared only above a file's
\* nearest boundary is left out, whatever earlier calls have loaded.
C4_NoReviewerFromAboveBoundary ==
  (/\ Returned("ReviewersFor")
   /\ \A f \in last.files : InsideRoot(f))
  => \A o \in last.value :
       \E f \in last.files : \E d \in Chain(dirname(f)) : o \in Declared(d)

\* C5: FilesNotCoveredBy never leaves out (reports as covered) a file on the
\* strength of a declaration above the file's nearest boundary: a file it
\* leaves out has a directory on its chain that declares '*' or a reviewer.
C5_NoCoverageFromAboveBoundary ==
  (/\ Returned("FilesNotCoveredBy")
   /\ last.reviewers # {})
  => \A f \in last.files \ last.value :
       InsideRoot(f) => ChainDeclares(dirname(f), last.reviewers)

\* C6 as claimed: a coverage call fails with the invalid-reviewer error
\* exactly when some reviewer is neither '*' nor e-mail-shaped.
C6_InvalidReviewerIffNotOwnerId ==
  (pc = "done" /\ last.op \in CoverageOps)
  => (last.outcome = "InvalidReviewer"
        <=> \E r \in last.reviewers : ~IsOwnerId(r))

\* C6 as amended: a coverage call whose files pass the path check fails with
\* the invalid-reviewer error exactly when some reviewer does not match the
\* e-mail pattern; '*' does not match it, so a set that holds '*' fails.
C6_InvalidReviewerIffNotEmail ==
  (pc = "done" /\ last.op \in CoverageOps)
  => (last.outcome = "InvalidReviewer"
        <=> (/\ _CheckPaths(last.files)
             /\ \E r \in last.reviewers : ~EmailMatch(r)))

\* C6 witness: a call with the wildcard as reviewer ended with the error.
C6_Witness ==
  /\ pc = "done"
  /\ last.op = "FilesAreCoveredBy"
  /\ last.reviewers = {EVERYONE}
  /\ last.files = {PathTop}
  /\ last.outcome = "InvalidReviewer"

\* C7: a call with a path that is not inside the repository root fails with
\* the input-validation error and never goes on to loading.
C7_OutsidePathFails ==
  (pc = "done" /\ \E f \in last.files : ~InsideRoot(f))
  => (last.outcome = "InvalidPath" /\ last.io = <<>>)

\* C8: validation comes before loading: a call whose input fails the path
\* check, or (for a coverage call) the reviewer check, ends with the
\* validation error without looking for any policy file and leaves
\* owned_by, owners_for and stop_looking as they were.
C8_ValidationBeforeLoading ==
  [][ (/\ IsCall
       /\ \/ ~_CheckPaths(last'.files)
          \/ last'.op \in CoverageOps /\ ~_CheckReviewers(last'.reviewers)
          \/ last'.outcome \in {"InvalidPath", "InvalidReviewer"})
      => (/\ last'.outcome \in {"InvalidPath", "InvalidReviewer"}
          /\ last'.io = <<>>
          /\ UNCHANGED <<owned_by, owners_for, stop_looking>>) ]_vars

\* C8 witness: a coverage call with a valid file and an invalid reviewer has
\* failed in a session that had loaded policy files before.
C8_Witness ==
  /\ pc = "done"
  /\ last.outcome = "InvalidReviewer"
  /\ last.files = {PathAB}
  /\ last.io = <<>>
  /\ DOMAIN owners_for # {}

\* C9: FilesNotCoveredBy(files, {}) with files that pass the path check
\* returns the files as given, looks for no policy file and leaves
\* owned_by, owners_for and stop_looking as they were.
C9_EmptyReviewersShortCircuit ==
  [][ (/\ IsCall
       /\ last'.op = "FilesNotCoveredBy"
       /\ last'.reviewers = {}
       /\ _CheckPaths(last'.files))
      => (/\ last'.outcome = "returned"
          /\ last'.value = last'.files
          /\ last'.io = <<>>
          /\ UNCHANGED <<owned_by, owners_for, stop_looking>>) ]_vars

\* C9 witness: the call returned a file of the root although the root
\* declares '*', before anything was loaded.
C9_Witness ==
  /\ Returned("FilesNotCoveredBy")
  /\ last.reviewers = {}
  /\ last.value = {PathTop}
  /\ EVERYONE \in Declared(<<>>)
  /\ DOMAIN owners_for = {}

\* C10: in every state, d is in owned_by[o] exactly when o is in
\* owners_for[d], and '*' is a key of owned_by.
C10_IndexConsistency ==
  /\ EVERYONE \in DOMAIN owned_by
  /\ \A o \in DOMAIN owned_by : \A d \in owned_by[o] :
       d \in DOMAIN owners_for /\ o \in owners_for[d]
  /\ \A d \in DOMAIN owners_for : \A o \in owners_for[d] :
       o \in DOMAIN owned_by /\ d \in owned_by[o]

\* C10 witness: a call was aborted by a syntax error after it had recorded
\* an owner of the same file.
C10_Witness ==
  /\ pc = "done"
  /\ last.outcome = "SyntaxError"
  /\ last.err.line > 1
  /\ \E d \in DOMAIN owners_for : owners_for[d] # {}

\* C11: calling ReviewersFor again with the same file set, on the session as
\* the first call left it, ends as the first call ended (the same set, or
\* the same failure) and leaves owned_by, owners_for and stop_looking as
\* they were after the first call.
C11_ReviewersForIdempotent ==
  (pc = "done" /\ last.op = "ReviewersFor" /\ last.outcome # "hang")
  => \A order \in Orders(last.files) :
       LET again == DoReviewersFor(DB, last.files, order)
       IN  /\ again.last.outcome = last.outcome
           /\ again.last.value = last.value
           /\ again.last.err = last.err
           /\ again.db = DB

----------------------------------------------------------------------------
(* The policy file of a directory that a walk has visited. *)

\* The path of the policy file of directory d, as _ReadOwnersInDir forms it.
OwnersPath(d) == join(join(Root, d), <<OWNERS>>)

\* The lines of the policy file of d (none when d has no policy file).
LinesOf(d) == FileAt(OwnersPath(d)).lines

\* The lines of the policy file of d, each stripped, by position.
Stripped(d) ==
  LET lines == LinesOf(d) IN [k \in 1..Len(lines) |-> Strip(lines[k])]

\* A stripped line the format does not allow: it is not empty and is neither
\* a comment, nor 'set noparent', nor an owner identifier.
Unrecognized(s) ==
  /\ s # <<>>
  /\ ~StartsWith(s, <<"#">>)
  /\ s # SetNoParent
  /\ ~IsOwnerId(s)

\* The positions of the unrecognized lines of the policy file of d.
UnrecognizedAt(d) ==
  LET s == Stripped(d) IN {k \in DOMAIN s : Unrecognized(s[k])}

\* The directories whose policy file the call that has just ended looked for.
Visited == {last.io[i] : i \in DOMAIN last.io}

\* C12: a call ends with the syntax error only on a line that, stripped, is
\* not empty and is neither a comment, nor 'set noparent', nor '*', nor
\* e-mail-shaped (a blank line never raises); and a call that reads a policy
\* file with such a line ends with the syntax error; the empty string is
\* never recorded as an owner.
C12_SyntaxErrorOnlyForUnrecognized ==
  pc = "done" =>
    /\ last.outcome = "SyntaxError" =>
         \E d \in Visited :
           /\ last.err.path = OwnersPath(d)
           /\ last.err.line \in UnrecognizedAt(d)
    /\ (\E d \in Visited : UnrecognizedAt(d) # {}) =>
         last.outcome = "SyntaxError"
    /\ <<>> \notin DOMAIN owned_by

----------------------------------------------------------------------------
(* Sessions over repositories with malformed policy files. *)

\* OWNERS files with a line that is no comment, directive or owner: after
\* 'set noparent' and an owner, after an owner and before 'set noparent',
\* and after a comment and a blank line.
ErrorPolicies ==
  { NoFile,
    File(<<EVERYONE>>),
    File(<<SetNoParent, Alice, NotAnEmail, Bob>>),
    File(<<Comment, Alice, NotAnEmail, SetNoParent>>),
    File(<<Comment, Blank, NotAnEmail>>) }

InitErr ==
  /\ fs \in [Dirs -> ErrorPolicies]
  /\ owned_by = InitOwnedBy
  /\ owners_for = InitOwnersFor
  /\ stop_looking = InitStopLooking
  /\ pc = "idle"
  /\ last = NoCall

SpecErr == InitErr /\ [][Next]_vars

\* The owners that the first n of the stripped lines s declare.
OwnersIn(s, n) == {o \in {s[k] : k \in 1..n} : IsOwnerId(o)}

\* The first n of the stripped lines s hold 'set noparent'.
NoParentIn(s, n) == \E k \in 1..n : s[k] = SetNoParent

\* What the collections `of` (owners_for) and `sl` (stop_looking) record for
\* d is what the first n of the stripped lines s of its policy file declare.
RecordedIn(of, sl, d, s, n) ==
  /\ Get(of, d) = OwnersIn(s, n)
  /\ d \in sl <=> (d = <<>> \/ NoParentIn(s, n))

\* What is recorded for d is what lines 1..n of its policy file declare.
RecordedIsPrefix(d, n) ==
  RecordedIn(owners_for, stop_looking, d, Stripped(d), n)

\* C13: a call that reads a policy file whose first unrecognized line is
\* line N (every physical line counted from 1) ends with the syntax error
\* whose path is the policy file of that directory and whose line is N, and
\* nothing of the lines after N-1 of the file is recorded.
C13_SyntaxErrorLocation ==
  pc = "done" =>
    \A d \in Visited :
      UnrecognizedAt(d) # {} =>
        /\ last.outcome = "SyntaxError"
        /\ last.err.path = OwnersPath(d)
        /\ last.err.line = Min(UnrecognizedAt(d))
        /\ RecordedIsPrefix(d, Min(UnrecognizedAt(d)) - 1)

----------------------------------------------------------------------------
(* Loading. *)

\* The call that has just ended has gone through its load step without error.
LoadCompleted ==
  /\ pc = "done"
  /\ last.outcome = "returned"
  /\ \/ last.op = "ReviewersFor"
     \/ last.op \in CoverageOps /\ last.reviewers # {}

\* C14: after the load step of a call has completed without error for a file
\* in directory d, every directory from d up to and including d's nearest
\* boundary is a key of owners_for, a directory without policy file or
\* without declared owner included.
C14_ChainHasEntries ==
  LoadCompleted =>
    \A f \in last.files :
      InsideRoot(f) => \A e \in Chain(dirname(f)) : e \in DOMAIN owners_for

\* The directories whose policy file a call that ends as r has looked for.
VisitedBy(r) == {r.last.io[i] : i \in DOMAIN r.last.io}

\* C15: the policy file of a directory is looked for and read at most once
\* in a session: a call looks for no policy file twice, and no directory the
\* call that has just ended has visited is visited again by the call that
\* follows it, whichever it is.
C15_ReadAtMostOnce ==
  (pc = "done" /\ last.outcome # "hang") =>
    /\ \A i, j \in DOMAIN last.io : i # j => last.io[i] # last.io[j]
    /\ \A files \in FileSets : \A order \in Orders(files) :
         /\ VisitedBy(DoReviewersFor(DB, files, order)) \cap Visited = {}
         /\ \A reviewers \in ReviewerSets :
              VisitedBy(DoFilesNotCoveredBy(DB, files, reviewers, order))
                \cap Visited = {}

----------------------------------------------------------------------------
(* Termination. *)

\* C17: every call whose paths pass the path check, an absolute path under
\* the root included, ends: its loading walk, its coverage walk and its
\* reviewer walk each come to a directory where they stop, so the call
\* returns or fails and the caller goes on.
C17_WalksTerminate ==
  pc = "done" => (last.outcome # "hang" /\ ENABLED Return)

----------------------------------------------------------------------------
(* Aborted loads. *)

\* A stripped line that the parser raises on: no comment, not 'set noparent'
\* and no owner identifier.
Rejected(s) ==
  /\ ~StartsWith(s, <<"#">>)
  /\ s # SetNoParent
  /\ ~IsOwnerId(s)

\* The positions of the stripped lines s the parser raises on.
RejectedIn(s) == {k \in DOMAIN s : Rejected(s[k])}

\* C18: a call aborted by a syntax error on line N of the policy file of d
\* leaves recorded for d exactly the owners and the 'set noparent' flag that
\* lines 1..N-1 declare, and nothing of the later lines; the directories it
\* had loaded before d, in this call or an earlier one, keep their entries;
\* and what is recorded for d stays so in every later step of the session.
C18_PartialCommit ==
  [][ /\ (IsCall /\ last'.outcome = "SyntaxError") =>
           LET d == last'.io[Len(last'.io)]
               s == Stripped(d)
               N == last'.err.line
           IN  /\ last'.err.path = OwnersPath(d)
               /\ RejectedIn(s) # {} /\ N = Min(RejectedIn(s))
               /\ RecordedIn(owners_for', stop_looking', d, s, N - 1)
               /\ \A i \in 1..(Len(last'.io) - 1) :
                    LET e == last'.io[i]
                        t == Stripped(e)
                    IN  RecordedIn(owners_for', stop_looking', e, t, Len(t))
               /\ \A e \in DOMAIN owners_for :
                    e \in DOMAIN owners_for' /\ owners_for'[e] = owners_for[e]
      /\ \A d \in Dirs :
           LET s == Stripped(d)
               r == RejectedIn(s)
           IN  (/\ r # {}
                /\ RecordedIn(owners_for, stop_looking, d, s, Min(r) - 1))
               => RecordedIn(owners_for', stop_looking', d, s, Min(r) - 1)
    ]_vars

\* C18 witness: a call has loaded a directory with an owner and was then
\* aborted in the parent directory, after the parent's 'set noparent' and an
\* owner and before another owner line.
C18_Witness ==
  /\ pc = "done"
  /\ last.outcome = "SyntaxError"
  /\ last.io = <<<<NameA, NameB>>, <<NameA>>>>
  /\ last.err.line = 3
  /\ <<NameA, NameB>> \in DOMAIN owners_for
  /\ <<NameA>> \in stop_looking
  /\ owners_for[<<NameA>>] = {Alice}
  /\ Bob \in Declared(<<NameA>>)

\* The file f lies in d or inherits through d: d is on the chain of the
\* directory of f.
InheritsThrough(f, d) == InsideRoot(f) /\ d \in Chain(dirname(f))

\* The call that ends as r has failed with a syntax error: the one of `err`
\* when some file lies in d itself.
FailsAgain(r, files, d, err) ==
  /\ r.last.outcome = "SyntaxError"
  /\ (\E f \in files : dirname(f) = d) => r.last.err = err

\* C19: once a call has failed with a syntax error in the policy file of d,
\* the next call of the session for files that lie in d or inherit through
\* d, whichever it is, fails with a syntax error too (with the same one
\* when a file lies in d): it returns no reviewer set and no coverage answer.
C19_SyntaxErrorPersists ==
  (pc = "done" /\ last.outcome = "SyntaxError") =>
    LET d == last.io[Len(last.io)]
    IN  \A files \in FileSets :
          (/\ _CheckPaths(files)
           /\ \E f \in files : InheritsThrough(f, d))
          => \A order \in Orders(files) :
               /\ FailsAgain(DoReviewersFor(DB, files, order),
                             files, d, last.err)
               /\ \A reviewers \in ReviewerSets :
                    (reviewers # {} /\ _CheckReviewers(reviewers))
                    => FailsAgain(
                         DoFilesNotCoveredBy(DB, files, reviewers, order),
                         files, d, last.err)

----------------------------------------------------------------------------
(* Lazy and eager loading. *)

\* The database after _ReadOwnersInDir has read the directories `dirs`, in
\* this order, into db.
RECURSIVE EagerLoad(_, _)
EagerLoad(db, dirs) ==
  IF dirs = <<>> THEN db
  ELSE EagerLoad(_ReadOwnersInDir(db, Head(dirs)).db, Tail(dirs))

\* The index with the policy file of every directory loaded up front.
EagerDB ==
  EagerLoad([owned_by |-> InitOwnedBy, owners_for |-> InitOwnersFor,
             stop_looking |-> InitStopLooking],
            <<<<>>, <<NameA>>, <<NameA, NameB>>>>)

\* The files FilesNotCoveredBy reports on the index db, nothing more loaded.
UncoveredOn(db, files, reviewers) ==
  {f \in files :
     ~_IsDirCoveredBy(db, dirname(f), _DirsCoveredBy(db, reviewers))}

\* C20: in a session whose policy files are all well-formed, a call of
\* ReviewersFor, or of FilesNotCoveredBy with reviewers, on valid input
\* returns, whatever calls came before it, what the same walk gives on the
\* index that has every directory's policy file loaded up front.
C20_LazyEqualsEager ==
  (/\ pc = "done"
   /\ \A d \in Dirs : WellFormed(d)
   /\ _CheckPaths(last.files)
   /\ _CheckReviewers(last.reviewers))
  => /\ last.op = "ReviewersFor" =>
          /\ last.outcome = "returned"
          /\ last.value = _CoveringSetOfOwnersFor(EagerDB, last.files)
     /\ (last.op = "FilesNotCoveredBy" /\ last.reviewers # {}) =>
          /\ last.outcome = "returned"
          /\ last.value = UncoveredOn(EagerDB, last.files, last.reviewers)
====
